---- MODULE Spec2Model ----
(***************************************************************************)
(* Model of waku's dev-server HMR coordinator (rsc-hmr plugin):            *)
(*   - modulePendingMap : WeakMap<ViteDevServer, Set<ModuleImportResult>>   *)
(*   - moduleImport     : async, awaits the next 'connection' event when it *)
(*                        creates the server's entry                        *)
(*   - generateInitialScripts / transformIndexHtml : initial tag list       *)
(*   - hotUpdate        : dispatch of HotUpdatePayload                      *)
(* JavaScript is single threaded: every action below is one synchronous    *)
(* run of a handler; an async function is split at its await.              *)
(***************************************************************************)
EXTENDS Integers, Sequences, FiniteSets, TLC

(* ---------------------------------------------------------------------- *)
(* Bounds                                                                  *)
(* ---------------------------------------------------------------------- *)

\* total number of events handed to vite.hot.send over all servers
MaxSent == 3

\* closures one registration block creates between two page loads
MaxCreated == 3

\* lines of the code handed to transform
MaxCodeLen == 3

(* ---------------------------------------------------------------------- *)
(* Values                                                                  *)
(* ---------------------------------------------------------------------- *)

\* ViteDevServer objects (keys of the WeakMap)
Servers == {"vite1", "vite2"}

\* ctx.server of transformIndexHtml may be undefined
undefined == "undefined"

WAKU_ATTR_NAME == "waku-module-id"

\* '.module.css', as dot separated segments (a module id is modelled as the
\* sequence of its dot separated segments: "a.module.css" = <<"a","module","css">>)
MODULE_CSS_SUFFIX == <<"module", "css">>

\* ModuleImportResult objects.  ref is the object identity (a JS Set compares
\* objects by reference); r1 and r3 are two distinct objects carrying the same id.
r1 == [ref |-> 1, id |-> <<"a", "module", "css">>, code |-> "js:a.module.css", source |-> ""]
r2 == [ref |-> 2, id |-> <<"b", "css">>, code |-> "js:b.css", source |-> "css:b.css"]
r3 == [ref |-> 3, id |-> <<"a", "module", "css">>, code |-> "js:a.module.css#2", source |-> ""]

ModuleImportResult == {r1, r2, r3}

\* two more objects of that type a page can be served: the result of a script
\* module, and one of a module that is neither a stylesheet nor a script
r4 == [ref |-> 4, id |-> <<"c", "js">>, code |-> "js:c.js", source |-> "src:c.js"]
r5 == [ref |-> 5, id |-> <<"d", "bin">>, code |-> "js:d.bin", source |-> "src:d.bin"]

PageArtifacts == ModuleImportResult \cup {r4, r5}

\* data of a hot-import payload
Paths == {"/src/x.js"}

FullReload == [type |-> "full-reload"]
RscReload == [type |-> "custom", event |-> "rsc-reload"]
HotImport(path) == [type |-> "custom", event |-> "hot-import", data |-> path]
ModuleImportEvent(result) == [type |-> "custom", event |-> "module-import", data |-> result]

HotUpdatePayload ==
  {FullReload, RscReload}
    \cup {HotImport(p) : p \in Paths}
    \cup {ModuleImportEvent(r) : r \in ModuleImportResult}

\* the hotUpdate calls the environment makes: vite1 is driven with every
\* payload, the second dev server vite2 with a reload and one artifact
HotUpdateCalls ==
  {<<"vite1", payload>> : payload \in HotUpdatePayload}
    \cup {<<"vite2", payload>> : payload \in {RscReload, ModuleImportEvent(r2)}}

(* ---------------------------------------------------------------------- *)
(* State                                                                   *)
(* ---------------------------------------------------------------------- *)

VARIABLES
  modulePendingMap, \* partial function Servers -> Set (a Set is its insertion-ordered sequence)
  pending,          \* moduleImport invocations suspended at `await waitForConnection`
  connected,        \* per server: has a 'connection' event been emitted on vite.ws
  sent,             \* per server: the payloads handed to vite.hot.send, in order
  issued,           \* per server: artifacts whose moduleImport call was made before the first connection
  lastCall          \* the handler that ran last, with its arguments (and return value)

\* the dev server's state
serverVars == <<modulePendingMap, pending, connected, sent, issued, lastCall>>

\* The browser page that runs injectingHmrCode and the two patched modules
VARIABLES
  document,                   \* the elements of the page: [head |-> sequence, body |-> sequence]
  WAKU_HMR_CONFIGURED,        \* globalThis.__WAKU_HMR_CONFIGURED__: the HMR handlers are installed
  WAKU_RSC_RELOAD_LISTENERS,  \* globalThis.__WAKU_RSC_RELOAD_LISTENERS__ (unset = empty)
  WAKU_REFETCH_RSC,           \* globalThis.__WAKU_REFETCH_RSC__
  WAKU_REFETCH_ROUTE,         \* globalThis.__WAKU_REFETCH_ROUTE__
  created,                    \* per registration block: how often it ran since the page load
  clientLast                  \* what the page did last, with its argument (and result)

clientVars ==
  <<document, WAKU_HMR_CONFIGURED, WAKU_RSC_RELOAD_LISTENERS, WAKU_REFETCH_RSC,
    WAKU_REFETCH_ROUTE, created, clientLast>>

\* The plugin's transform hook
VARIABLES
  transformed                 \* the last transform(code, id) call with its return value

vars == <<modulePendingMap, pending, connected, sent, issued, lastCall,
          document, WAKU_HMR_CONFIGURED, WAKU_RSC_RELOAD_LISTENERS, WAKU_REFETCH_RSC,
          WAKU_REFETCH_ROUTE, created, clientLast, transformed>>

(* ---------------------------------------------------------------------- *)
(* JS Set / Map helpers                                                    *)
(* ---------------------------------------------------------------------- *)

Range(s) == {s[i] : i \in 1..Len(s)}

\* Set.prototype.has
SetHas(sourceSet, result) == result \in Range(sourceSet)

\* SetAdd that puts a new value first
SetAdd_Prepend(sourceSet, result) ==
  IF result \in Range(sourceSet) THEN sourceSet ELSE <<result>> \o sourceSet

\* Set.prototype.add: keeps insertion order, ignores a value already present
SetAdd(sourceSet, result) ==
  IF SetHas(sourceSet, result) THEN sourceSet ELSE Append(sourceSet, result)

\* Set.prototype.clear
SetClear(sourceSet) == <<>>

\* WeakMap.prototype.has / get / set
MapHas(map, key) == key \in DOMAIN map

MapSet(map, key, value) ==
  [k \in (DOMAIN map) \cup {key} |-> IF k = key THEN value ELSE map[k]]

\* String.prototype.endsWith('.module.css') on the segment representation:
\* the last two segments are module, css and a dot precedes them
EndsWithModuleCss(id) ==
  /\ Len(id) >= Len(MODULE_CSS_SUFFIX) + 1
  /\ SubSeq(id, Len(id) - Len(MODULE_CSS_SUFFIX) + 1, Len(id)) = MODULE_CSS_SUFFIX

RECURSIVE SumLen(_, _)
SumLen(f, S) ==
  IF S = {} THEN 0
  ELSE LET v == CHOOSE x \in S : TRUE IN Len(f[v]) + SumLen(f, S \ {v})

TotalSent == SumLen(sent, Servers)

\* vite.hot.send(payload)
HotSend(log, vite, payload) == [log EXCEPT ![vite] = Append(@, payload)]

(* ---------------------------------------------------------------------- *)
(* generateInitialScripts                                                  *)
(* ---------------------------------------------------------------------- *)

BlockingViteClient ==
  [tag |-> "script",
   attrs |-> [type |-> "module", blocking |-> "render", src |-> "/@vite/client"],
   injectTo |-> "head-prepend"]

CssModuleScript(result) ==
  [tag |-> "script",
   attrs |-> [type |-> "module", WAKU_ATTR_NAME |-> result.id],
   children |-> result.code,
   injectTo |-> "head-prepend"]

\* the style element filled with the transformed code
StyleTag_Code(result) ==
  [tag |-> "style",
   attrs |-> [type |-> "text/css", WAKU_ATTR_NAME |-> result.id],
   children |-> result.code,
   injectTo |-> "body"]

StyleTag(result) ==
  [tag |-> "style",
   attrs |-> [type |-> "text/css", WAKU_ATTR_NAME |-> result.id],
   children |-> result.source,
   injectTo |-> "body"]

RECURSIVE ScriptsLoop_FlagNeverSet(_, _, _, _)
\* ScriptsLoop without `injectedBlockingViteClient = true`
ScriptsLoop_FlagNeverSet(sourceSet, i, scripts, injectedBlockingViteClient) ==
  IF i > Len(sourceSet) THEN scripts
  ELSE LET result == sourceSet[i] IN
       IF EndsWithModuleCss(result.id)
       THEN ScriptsLoop_FlagNeverSet(sourceSet, i + 1,
              (IF injectedBlockingViteClient THEN scripts
               ELSE Append(scripts, BlockingViteClient)) \o <<CssModuleScript(result)>>,
              injectedBlockingViteClient)
       ELSE ScriptsLoop_FlagNeverSet(sourceSet, i + 1, Append(scripts, StyleTag(result)),
                                     injectedBlockingViteClient)

\* the for loop over sourceSet, from index i with the scripts built so far
RECURSIVE ScriptsLoop(_, _, _, _)
ScriptsLoop(sourceSet, i, scripts, injectedBlockingViteClient) ==
  IF i > Len(sourceSet) THEN scripts
  ELSE LET result == sourceSet[i] IN
       IF EndsWithModuleCss(result.id)
       THEN ScriptsLoop(sourceSet, i + 1,
              (IF injectedBlockingViteClient THEN scripts
               ELSE Append(scripts, BlockingViteClient)) \o <<CssModuleScript(result)>>,
              TRUE)
       ELSE ScriptsLoop(sourceSet, i + 1, Append(scripts, StyleTag(result)),
                        injectedBlockingViteClient)

\* generateInitialScripts whose loop misses the first member of the Set
generateInitialScripts_SkipFirst(map, viteServer) ==
  IF viteServer = undefined THEN <<>>
  ELSE IF ~MapHas(map, viteServer) THEN <<>>
  ELSE ScriptsLoop(map[viteServer], 2, <<>>, FALSE)

generateInitialScripts(map, viteServer) ==
  IF viteServer = undefined THEN <<>>
  ELSE IF ~MapHas(map, viteServer) THEN <<>>
  ELSE ScriptsLoop(map[viteServer], 1, <<>>, FALSE)

(* ---------------------------------------------------------------------- *)
(* Init                                                                    *)
(* ---------------------------------------------------------------------- *)

\* a slot of globalThis that was never assigned
NoFunction == [kind |-> "undefined", n |-> 0]

\* the two registration blocks the transform hook inserts
Blocks == {"refetchRsc", "refetchRoute"}

\* the dev server right after start
ServerInit ==
  /\ modulePendingMap = <<>>
  /\ pending = {}
  /\ connected = [v \in Servers |-> FALSE]
  /\ sent = [v \in Servers |-> <<>>]
  /\ issued = [v \in Servers |-> <<>>]
  /\ lastCall = [op |-> "none"]

\* a browser tab before it has loaded the page
ClientInit ==
  /\ document = [head |-> <<>>, body |-> <<>>]
  /\ WAKU_HMR_CONFIGURED = FALSE
  /\ WAKU_RSC_RELOAD_LISTENERS = <<>>
  /\ WAKU_REFETCH_RSC = NoFunction
  /\ WAKU_REFETCH_ROUTE = NoFunction
  /\ created = [b \in Blocks |-> 0]
  /\ clientLast = [op |-> "none"]

\* no module transformed yet
TransformInit == transformed = [op |-> "none"]

Init ==
  /\ ServerInit
  /\ ClientInit
  /\ TransformInit

(* ---------------------------------------------------------------------- *)
(* moduleImport                                                            *)
(* ---------------------------------------------------------------------- *)

\* waitForConnection: registers `resolve` as a listener of vite.ws 'connection';
\* the caller is parked at its await until the next such event
waitForConnection(calls, vite, result) ==
  calls \cup {[vite |-> vite, result |-> result]}

\* moduleImportRest that stores a fresh Set holding only the new result
moduleImportRest_ReplaceSet(map, log, viteServer, result) ==
  IF SetHas(map[viteServer], result)
  THEN <<map, log>>
  ELSE <<MapSet(map, viteServer, <<result>>),
         HotSend(log, viteServer, ModuleImportEvent(result))>>

\* moduleImportRest without the `sourceSet.has(result)` early return
moduleImportRest_NoHasCheck(map, log, viteServer, result) ==
  <<MapSet(map, viteServer, SetAdd(map[viteServer], result)),
    HotSend(log, viteServer, ModuleImportEvent(result))>>

\* `if (sourceSet.has(result)) return; sourceSet.add(result); viteServer.hot.send(...)`
\* (sourceSet is the Set stored under viteServer: the entry is never replaced),
\* as the new values of <<modulePendingMap, sent>>
moduleImportRest(map, log, viteServer, result) ==
  IF SetHas(map[viteServer], result)
  THEN <<map, log>>
  ELSE <<MapSet(map, viteServer, SetAdd(map[viteServer], result)),
         HotSend(log, viteServer, ModuleImportEvent(result))>>

\* the synchronous part of a moduleImport call: up to the await when the
\* server has no entry yet, the whole body otherwise
moduleImport(viteServer, result) ==
  /\ issued' = IF connected[viteServer]
               THEN issued
               ELSE [issued EXCEPT ![viteServer] = SetAdd(@, result)]
  /\ IF ~MapHas(modulePendingMap, viteServer)
     THEN /\ modulePendingMap' = MapSet(modulePendingMap, viteServer, <<>>)
          /\ pending' = waitForConnection(pending, viteServer, result)
          /\ UNCHANGED sent
     ELSE LET next == moduleImportRest(modulePendingMap, sent, viteServer, result)
          IN /\ modulePendingMap' = next[1]
             /\ sent' = next[2]
             /\ UNCHANGED pending

RECURSIVE ResumeAll_StaleSet(_, _, _)
\* ResumeAll whose continuations add to a Set that is no longer the one
\* stored in the map: the event is sent, the registry is left as it was
ResumeAll_StaleSet(map, log, calls) ==
  IF calls = {} THEN <<map, log>>
  ELSE LET call == CHOOSE c \in calls : TRUE
           next == moduleImportRest(map, log, call.vite, call.result)
       IN ResumeAll_StaleSet(map, next[2], calls \ {call})

\* the continuations of the calls in `calls`, run one after the other
RECURSIVE ResumeAll(_, _, _)
ResumeAll(map, log, calls) ==
  IF calls = {} THEN <<map, log>>
  ELSE LET call == CHOOSE c \in calls : TRUE
           next == moduleImportRest(map, log, call.vite, call.result)
       IN ResumeAll(next[1], next[2], calls \ {call})

\* vite.ws emits 'connection': the listeners registered by waitForConnection
\* resolve their promises, and the continuations of the parked moduleImport
\* calls run as microtasks, before any other handler gets to run
\* (lastCall.resumed: the artifacts of the calls woken; lastCall.afterReload:
\* the handler that ran right before was hotUpdate(vite, rsc-reload))
Connection(vite) ==
  LET woken == {c \in pending : c.vite = vite}
      next == ResumeAll(modulePendingMap, sent, woken)
  IN /\ connected' = [connected EXCEPT ![vite] = TRUE]
     /\ pending' = pending \ woken
     /\ modulePendingMap' = next[1]
     /\ sent' = next[2]
     /\ SumLen(next[2], Servers) <= MaxSent
     /\ lastCall' = [op |-> "connection", vite |-> vite,
                      resumed |-> {c.result : c \in woken},
                      afterReload |-> ( /\ lastCall.op = "hotUpdate"
                                        /\ lastCall.vite = vite
                                        /\ lastCall.payload = RscReload )]
     /\ UNCHANGED issued

(* ---------------------------------------------------------------------- *)
(* hotUpdate                                                               *)
(* ---------------------------------------------------------------------- *)

\* ClearSourceSet without the clear()
ClearSourceSet_NoClear(map, vite) == map

\* `modulePendingMap.get(vite)?.clear()`
ClearSourceSet(map, vite) ==
  IF MapHas(map, vite) THEN MapSet(map, vite, SetClear(map[vite])) ELSE map

\* hotUpdate whose rsc-reload branch deletes the server's entry instead of
\* clearing its Set
hotUpdate_RscReloadDeletes(vite, payload) ==
  /\ IF payload.type = "full-reload"
     THEN /\ TotalSent < MaxSent
          /\ sent' = HotSend(sent, vite, payload)
          /\ UNCHANGED <<modulePendingMap, pending, issued>>
     ELSE IF payload.event = "rsc-reload"
     THEN /\ TotalSent < MaxSent
          /\ modulePendingMap' =
               [k \in (DOMAIN modulePendingMap) \ {vite} |-> modulePendingMap[k]]
          /\ sent' = HotSend(sent, vite, payload)
          /\ UNCHANGED <<pending, issued>>
     ELSE IF payload.event = "module-import"
     THEN /\ moduleImport(vite, payload.data)
          /\ SumLen(sent', Servers) <= MaxSent
     ELSE UNCHANGED <<modulePendingMap, pending, sent, issued>>
  /\ lastCall' = [op |-> "hotUpdate", vite |-> vite, payload |-> payload,
                   suspended |-> (pending' # pending)]
  /\ UNCHANGED connected

\* hotUpdate whose full-reload branch also clears the server's Set
hotUpdate_FullReloadClears(vite, payload) ==
  /\ IF payload.type = "full-reload"
     THEN /\ TotalSent < MaxSent
          /\ modulePendingMap' = ClearSourceSet(modulePendingMap, vite)
          /\ sent' = HotSend(sent, vite, payload)
          /\ UNCHANGED <<pending, issued>>
     ELSE IF payload.event = "rsc-reload"
     THEN /\ TotalSent < MaxSent
          /\ modulePendingMap' = ClearSourceSet(modulePendingMap, vite)
          /\ sent' = HotSend(sent, vite, payload)
          /\ UNCHANGED <<pending, issued>>
     ELSE IF payload.event = "module-import"
     THEN /\ moduleImport(vite, payload.data)
          /\ SumLen(sent', Servers) <= MaxSent
     ELSE UNCHANGED <<modulePendingMap, pending, sent, issued>>
  /\ lastCall' = [op |-> "hotUpdate", vite |-> vite, payload |-> payload,
                   suspended |-> (pending' # pending)]
  /\ UNCHANGED connected

\* lastCall.suspended: the call left a moduleImport parked at its await
hotUpdate(vite, payload) ==
  /\ IF payload.type = "full-reload"
     THEN /\ TotalSent < MaxSent
          /\ sent' = HotSend(sent, vite, payload)
          /\ UNCHANGED <<modulePendingMap, pending, issued>>
     ELSE IF payload.event = "rsc-reload"
     THEN /\ TotalSent < MaxSent
          /\ modulePendingMap' = ClearSourceSet(modulePendingMap, vite)
          /\ sent' = HotSend(sent, vite, payload)
          /\ UNCHANGED <<pending, issued>>
     ELSE IF payload.event = "module-import"
     THEN /\ moduleImport(vite, payload.data)
          /\ SumLen(sent', Servers) <= MaxSent
     ELSE UNCHANGED <<modulePendingMap, pending, sent, issued>>
  /\ lastCall' = [op |-> "hotUpdate", vite |-> vite, payload |-> payload,
                   suspended |-> (pending' # pending)]
  /\ UNCHANGED connected

(* ---------------------------------------------------------------------- *)
(* transformIndexHtml                                                      *)
(* ---------------------------------------------------------------------- *)

\* transformIndexHtml that empties the server's Set once it has read it
transformIndexHtml_Drain(server) ==
  /\ lastCall' =
       [op |-> "transformIndexHtml", vite |-> server,
        ret |-> generateInitialScripts(modulePendingMap, server),
        repeat |-> (lastCall.op = "transformIndexHtml" /\ lastCall.vite = server),
        prev |-> IF lastCall.op = "transformIndexHtml" /\ lastCall.vite = server
                 THEN lastCall.ret ELSE <<>>]
  /\ modulePendingMap' =
       IF server \in DOMAIN modulePendingMap
       THEN MapSet(modulePendingMap, server, <<>>) ELSE modulePendingMap
  /\ UNCHANGED <<pending, connected, sent, issued>>

\* the plugin hook: returns generateInitialScripts(ctx.server) followed by the
\* HMR client script; ret is the generateInitialScripts part, prev the one of
\* the call before when that call was the handler that ran last (repeat)
transformIndexHtml(server) ==
  /\ lastCall' =
       [op |-> "transformIndexHtml", vite |-> server,
        ret |-> generateInitialScripts(modulePendingMap, server),
        repeat |-> (lastCall.op = "transformIndexHtml" /\ lastCall.vite = server),
        prev |-> IF lastCall.op = "transformIndexHtml" /\ lastCall.vite = server
                 THEN lastCall.ret ELSE <<>>]
  /\ UNCHANGED <<modulePendingMap, pending, connected, sent, issued>>

(* ---------------------------------------------------------------------- *)
(* Specification                                                           *)
(* ---------------------------------------------------------------------- *)

\* the dev server's handlers; the page and the transform hook are not involved
Next ==
  \/ /\ \E call \in HotUpdateCalls : hotUpdate(call[1], call[2])
     /\ UNCHANGED <<clientVars, transformed>>
  \/ /\ \E vite \in Servers : Connection(vite)
     /\ UNCHANGED <<clientVars, transformed>>
  \/ /\ \E server \in Servers \cup {undefined} : transformIndexHtml(server)
     /\ UNCHANGED <<clientVars, transformed>>

Spec == Init /\ [][Next]_vars

TypeOK ==
  /\ DOMAIN modulePendingMap \subseteq Servers
  /\ \A v \in DOMAIN modulePendingMap : Range(modulePendingMap[v]) \subseteq ModuleImportResult
  /\ \A c \in pending : c.vite \in Servers /\ c.result \in ModuleImportResult
  /\ TotalSent <= MaxSent

(* ---------------------------------------------------------------------- *)
(* The page: injectingHmrCode and the two registration blocks              *)
(* ---------------------------------------------------------------------- *)

\* the script element transformIndexHtml puts after the planned elements
HmrClientScript ==
  [tag |-> "script",
   attrs |-> [type |-> "module", async |-> TRUE],
   children |-> "injectingHmrCode",
   injectTo |-> "head"]

\* what transformIndexHtml returns
IndexHtmlTags(map, server) == generateInitialScripts(map, server) \o <<HmrClientScript>>

\* the descriptors of a list with the given injectTo, in list order
InjectedTo(tags, place) == SelectSeq(tags, LAMBDA t : t.injectTo = place)

\* the page built from the returned descriptors: each becomes an element with
\* the descriptor's attrs as its attributes; head-prepend before head, then body
Render(tags) ==
  [head |-> InjectedTo(tags, "head-prepend") \o InjectedTo(tags, "head"),
   body |-> InjectedTo(tags, "body")]

\* the registries a page is served from: up to two distinct objects, in order
PageRegistries ==
  {<<>>} \cup {<<a>> : a \in PageArtifacts}
         \cup {<<a, b>> : <<a, b>> \in {pr \in PageArtifacts \X PageArtifacts : pr[1] # pr[2]}}

\* the browser loads index.html while the server's Set holds reg: a new
\* document and a new globalThis, and the HMR client script installs its handlers
PageLoad(reg) ==
  LET tags == IndexHtmlTags(MapSet(<<>>, "vite1", reg), "vite1") IN
  /\ document' = Render(tags)
  /\ WAKU_HMR_CONFIGURED' = TRUE
  /\ WAKU_RSC_RELOAD_LISTENERS' = <<>>
  /\ WAKU_REFETCH_RSC' = NoFunction
  /\ WAKU_REFETCH_ROUTE' = NoFunction
  /\ created' = [b \in Blocks |-> 0]
  /\ clientLast' = [op |-> "pageLoad", reg |-> reg, tags |-> tags]

\* element.matches('[name]')
HasAttribute(el, name) == name \in DOMAIN el.attrs

\* element.matches('tag[name="value"]')
Matches(el, tag, name, value) ==
  /\ el.tag = tag
  /\ HasAttribute(el, name)
  /\ el.attrs[name] = value

\* a sequence without its i-th member
RemoveAt(seq, i) == [j \in 1..(Len(seq) - 1) |-> IF j < i THEN seq[j] ELSE seq[j + 1]]

\* the sequence without its first member matching tag[name="value"]
\* (unchanged if there is none)
RemoveFirst(seq, tag, name, value) ==
  IF \E i \in 1..Len(seq) : Matches(seq[i], tag, name, value)
  THEN RemoveAt(seq, CHOOSE i \in 1..Len(seq) :
                       /\ Matches(seq[i], tag, name, value)
                       /\ \A j \in 1..(i - 1) : ~Matches(seq[j], tag, name, value))
  ELSE seq

\* the rsc-reload handler that removes nothing
RemoveWakuTags_Keep(doc) == doc

\* querySelectorAll('[waku-module-id]') and remove() on each match
RemoveWakuTags(doc) ==
  [head |-> SelectSeq(doc.head, LAMBDA el : ~HasAttribute(el, WAKU_ATTR_NAME)),
   body |-> SelectSeq(doc.body, LAMBDA el : ~HasAttribute(el, WAKU_ATTR_NAME))]

\* import.meta.hot.on('rsc-reload', ...): removes the tagged elements, then
\* calls the listeners in list order (invoked)
OnRscReload ==
  /\ WAKU_HMR_CONFIGURED
  /\ document' = RemoveWakuTags(document)
  /\ clientLast' = [op |-> "rsc-reload", before |-> document,
                    invoked |-> WAKU_RSC_RELOAD_LISTENERS]
  /\ UNCHANGED <<WAKU_HMR_CONFIGURED, WAKU_RSC_RELOAD_LISTENERS, WAKU_REFETCH_RSC,
                 WAKU_REFETCH_ROUTE, created>>

\* the element the module-import handler creates
CreatedScript(data) ==
  [tag |-> "script",
   attrs |-> ("type" :> "module") @@ (WAKU_ATTR_NAME :> data.id),
   children |-> data.code,
   injectTo |-> "head"]

\* the module-import handler without `script?.remove()`
SwapScript_NoRemove(doc, data) ==
  [head |-> Append(doc.head, CreatedScript(data)), body |-> doc.body]

\* script?.remove() of the first script[waku-module-id=data.id] in document
\* order, then appendChild to head.  The matching style is not removed:
\* queueMicrotask(style.remove) calls remove without a receiver, which throws
\* in the microtask and leaves the element where it is.
SwapScript(doc, data) ==
  LET inHead == \E i \in 1..Len(doc.head) :
                  Matches(doc.head[i], "script", WAKU_ATTR_NAME, data.id)
      head == RemoveFirst(doc.head, "script", WAKU_ATTR_NAME, data.id)
      body == IF inHead THEN doc.body
              ELSE RemoveFirst(doc.body, "script", WAKU_ATTR_NAME, data.id)
  IN [head |-> Append(head, CreatedScript(data)), body |-> body]

\* import.meta.hot.on('module-import', (data) => ...)
OnModuleImport(data) ==
  /\ WAKU_HMR_CONFIGURED
  /\ document' = SwapScript(document, data)
  /\ clientLast' = [op |-> "module-import", data |-> data, before |-> document]
  /\ UNCHANGED <<WAKU_HMR_CONFIGURED, WAKU_RSC_RELOAD_LISTENERS, WAKU_REFETCH_RSC,
                 WAKU_REFETCH_ROUTE, created>>

\* Array.prototype.indexOf: 0-based, -1 when absent
IndexOf(list, x) ==
  IF \E i \in 1..Len(list) : list[i] = x
  THEN (CHOOSE i \in 1..Len(list) : list[i] = x /\ \A j \in 1..(i - 1) : list[j] # x) - 1
  ELSE -1

\* list.splice(index, 1, x)
Splice1(list, index, x) == [list EXCEPT ![index + 1] = x]

\* the closure an execution of a registration block creates: the n-th of its block
NewFunction(block) == [kind |-> block, n |-> created[block] + 1]

\* the fetchRSC block that pushes without looking for the previous listener
RegisterRefetchRsc_AlwaysPush(listeners, current, refetchRsc) ==
  Append(listeners, refetchRsc)

\* the block inserted into fetchRSC: the listener list after it ran
RegisterRefetchRsc(listeners, current, refetchRsc) ==
  LET index == IndexOf(listeners, current) IN
  IF index # -1 THEN Splice1(listeners, index, refetchRsc)
  ELSE Append(listeners, refetchRsc)

\* a call of the patched fetchRSC runs its block
fetchRSC ==
  LET refetchRsc == NewFunction("refetchRsc") IN
  /\ WAKU_HMR_CONFIGURED
  /\ created["refetchRsc"] < MaxCreated
  /\ WAKU_RSC_RELOAD_LISTENERS' =
       RegisterRefetchRsc(WAKU_RSC_RELOAD_LISTENERS, WAKU_REFETCH_RSC, refetchRsc)
  /\ WAKU_REFETCH_RSC' = refetchRsc
  /\ created' = [created EXCEPT !["refetchRsc"] = @ + 1]
  /\ clientLast' = [op |-> "fetchRSC", fn |-> refetchRsc]
  /\ UNCHANGED <<document, WAKU_HMR_CONFIGURED, WAKU_REFETCH_ROUTE>>

\* the InnerRouter block that pushes where the source unshifts
RegisterRefetchRoute_Push(listeners, current, refetchRoute) ==
  LET index == IndexOf(listeners, current) IN
  IF index # -1 THEN Splice1(listeners, index, refetchRoute)
  ELSE Append(listeners, refetchRoute)

\* the block inserted into InnerRouter: the listener list after it ran
RegisterRefetchRoute(listeners, current, refetchRoute) ==
  LET index == IndexOf(listeners, current) IN
  IF index # -1 THEN Splice1(listeners, index, refetchRoute)
  ELSE <<refetchRoute>> \o listeners

\* a render of the patched InnerRouter runs its block
InnerRouter ==
  LET refetchRoute == NewFunction("refetchRoute") IN
  /\ WAKU_HMR_CONFIGURED
  /\ created["refetchRoute"] < MaxCreated
  /\ WAKU_RSC_RELOAD_LISTENERS' =
       RegisterRefetchRoute(WAKU_RSC_RELOAD_LISTENERS, WAKU_REFETCH_ROUTE, refetchRoute)
  /\ WAKU_REFETCH_ROUTE' = refetchRoute
  /\ created' = [created EXCEPT !["refetchRoute"] = @ + 1]
  /\ clientLast' = [op |-> "InnerRouter", fn |-> refetchRoute]
  /\ UNCHANGED <<document, WAKU_HMR_CONFIGURED, WAKU_REFETCH_RSC>>

\* the page's steps; the dev server and the transform hook are not involved
ClientNext ==
  \/ /\ \E reg \in PageRegistries : PageLoad(reg)
     /\ UNCHANGED <<serverVars, transformed>>
  \/ /\ OnRscReload
     /\ UNCHANGED <<serverVars, transformed>>
  \/ /\ \E data \in ModuleImportResult : OnModuleImport(data)
     /\ UNCHANGED <<serverVars, transformed>>
  \/ /\ fetchRSC
     /\ UNCHANGED <<serverVars, transformed>>
  \/ /\ InnerRouter
     /\ UNCHANGED <<serverVars, transformed>>

ClientSpec == Init /\ [][ClientNext]_vars

(* ---------------------------------------------------------------------- *)
(* The transform hook                                                      *)
(* ---------------------------------------------------------------------- *)

\* Module ids are sequences of path segments (a query string is one more
\* segment); code is the sequence of its lines.

\* .../dist/client.js and .../dist/router/client.js
wakuClientDist == <<"waku", "dist", "client.js">>
wakuRouterClientDist == <<"waku", "dist", "router", "client.js">>

\* the ids transform is called with
ModuleIds ==
  {wakuClientDist,
   wakuClientDist \o <<"?v=1">>,
   wakuRouterClientDist,
   wakuRouterClientDist \o <<"?v=1">>,
   <<"waku", "dist", "main.js">>,
   <<"src", "client.js">>}

FETCH_RSC_LINE ==
  "export const fetchRSC = (input, searchParamsString, setElements, cache = fetchCache)=>{"
INNER_ROUTER_LINE == "function InnerRouter() {"

\* the text inserted after each marker
REFETCH_RSC_BLOCK == "{ const refetchRsc = ... }"
REFETCH_ROUTE_BLOCK == "{ const refetchRoute = ... }"

\* the lines code is made of: the two markers, the fetchRSC line as another
\* minifier would print it, and any other line
Lines ==
  {FETCH_RSC_LINE, INNER_ROUTER_LINE,
   "export const fetchRSC = (input, searchParamsString, setElements, cache = fetchCache) => {",
   "const x = 1;"}

Codes == UNION {[1..n -> Lines] : n \in 0..MaxCodeLen}

\* String.prototype.startsWith
StartsWith(s, prefix) ==
  /\ Len(prefix) <= Len(s)
  /\ SubSeq(s, 1, Len(prefix)) = prefix

\* replace that adds the replacement at the end when the pattern is absent
Replace_AppendWhenAbsent(code, pattern, replacement) ==
  IF \E i \in 1..Len(code) : code[i] = pattern
  THEN LET i == CHOOSE k \in 1..Len(code) :
                  code[k] = pattern /\ \A j \in 1..(k - 1) : code[j] # pattern
       IN SubSeq(code, 1, i - 1) \o replacement \o SubSeq(code, i + 1, Len(code))
  ELSE code \o replacement

\* String.prototype.replace with a string pattern: the first occurrence only,
\* the input itself when there is none
Replace(code, pattern, replacement) ==
  IF \E i \in 1..Len(code) : code[i] = pattern
  THEN LET i == CHOOSE k \in 1..Len(code) :
                  code[k] = pattern /\ \A j \in 1..(k - 1) : code[j] # pattern
       IN SubSeq(code, 1, i - 1) \o replacement \o SubSeq(code, i + 1, Len(code))
  ELSE code

\* what the hook returns: a string, or nothing (the function falls off its end)
Returned(code) == [kind |-> "string", code |-> code]
ReturnedUndefined == [kind |-> "undefined"]

\* the return value of transform(code, id)
TransformResult(code, id) ==
  IF StartsWith(id, wakuClientDist)
  THEN Returned(Replace(code, FETCH_RSC_LINE, <<FETCH_RSC_LINE, REFETCH_RSC_BLOCK>>))
  ELSE IF StartsWith(id, wakuRouterClientDist)
  THEN Returned(Replace(code, INNER_ROUTER_LINE, <<INNER_ROUTER_LINE, REFETCH_ROUTE_BLOCK>>))
  ELSE ReturnedUndefined

\* the bundler calls the hook for a module
transform(code, id) ==
  /\ transformed' = [op |-> "transform", code |-> code, id |-> id,
                     ret |-> TransformResult(code, id)]
  /\ UNCHANGED <<serverVars, clientVars>>

PatchNext == \E id \in ModuleIds, code \in Codes : transform(code, id)

PatchSpec == Init /\ [][PatchNext]_vars

(* ---------------------------------------------------------------------- *)
(* Observations used by the properties                                     *)
(* ---------------------------------------------------------------------- *)

\* the artifacts recorded for a server, in insertion order (none without entry)
RecordedIn(map, vite) == IF MapHas(map, vite) THEN map[vite] ELSE <<>>

Recorded(vite) == RecordedIn(modulePendingMap, vite)

\* how often a value occurs in a sequence
Occurrences(seq, x) == Cardinality({i \in 1..Len(seq) : seq[i] = x})

\* how often the module-import event of result was handed to the transport of vite
SentCount(vite, result) == Occurrences(sent[vite], ModuleImportEvent(result))

NoRscReload(vite) == RscReload \notin Range(sent[vite])

IsModuleImport(payload) == payload.type = "custom" /\ payload.event = "module-import"

RECURSIVE ImportsOf(_)
\* the artifacts of the module-import events of a log, in order
ImportsOf(log) ==
  IF log = <<>> THEN <<>>
  ELSE IF IsModuleImport(Head(log)) THEN <<Head(log).data>> \o ImportsOf(Tail(log))
  ELSE ImportsOf(Tail(log))

RECURSIVE Restrict(_, _)
\* the subsequence of the members of S
Restrict(seq, S) ==
  IF seq = <<>> THEN <<>>
  ELSE IF Head(seq) \in S THEN <<Head(seq)>> \o Restrict(Tail(seq), S)
  ELSE Restrict(Tail(seq), S)

\* the handler that ran last was hotUpdate(vite, payload)
LastHotUpdate(vite, payload) ==
  /\ lastCall.op = "hotUpdate"
  /\ lastCall.vite = vite
  /\ lastCall.payload = payload

\* the handler that ran last completed a deliver of result on vite: a
\* moduleImport call that ran to its end, or the connection event that ran
\* the continuation of the parked call
DeliverCompleted(vite, result) ==
  \/ LastHotUpdate(vite, ModuleImportEvent(result)) /\ ~lastCall.suspended
  \/ lastCall.op = "connection" /\ lastCall.vite = vite /\ result \in lastCall.resumed

Parked(vite) == {c \in pending : c.vite = vite}

(* ---------------------------------------------------------------------- *)
(* C1  Dedup                                                               *)
(* ---------------------------------------------------------------------- *)

\* C1: as long as no rsc-reload was processed for a server, the module-import
\* event of an artifact is handed to that server's transport at most once and
\* the artifact is recorded at most once; after a deliver call of the artifact
\* has run to completion (in particular the second of two calls, the first
\* still parked or already resumed) it is exactly once in both.
C1_Dedup ==
  \A vite \in Servers, result \in ModuleImportResult :
    NoRscReload(vite) =>
      /\ SentCount(vite, result) <= 1
      /\ Occurrences(Recorded(vite), result) <= 1
      /\ DeliverCompleted(vite, result) =>
           /\ SentCount(vite, result) = 1
           /\ Occurrences(Recorded(vite), result) = 1

\* deliver(vite, result) was called twice before any connection: the first
\* call is still parked, the second has run to completion
C1_Witness ==
  \E vite \in Servers, result \in ModuleImportResult :
    /\ [vite |-> vite, result |-> result] \in pending
    /\ ~connected[vite]
    /\ LastHotUpdate(vite, ModuleImportEvent(result)) /\ ~lastCall.suspended
    /\ NoRscReload(vite)
    /\ SentCount(vite, result) = 1

(* ---------------------------------------------------------------------- *)
(* C2  Replay                                                              *)
(* ---------------------------------------------------------------------- *)

\* C2: once the first connection of a server was observed (and no rsc-reload
\* was processed), the artifacts whose deliver calls were made before that
\* connection have been handed to the transport in the order of their calls,
\* none lost.
C2_Replay ==
  \A vite \in Servers :
    (connected[vite] /\ NoRscReload(vite)) =>
      Restrict(ImportsOf(sent[vite]), Range(issued[vite])) = issued[vite]

(* ---------------------------------------------------------------------- *)
(* C3  Gate suspension                                                     *)
(* ---------------------------------------------------------------------- *)

\* C3: before the first connection event of a server, no module-import event
\* has been handed to its transport and no artifact is recorded for it.
C3_GateSuspension ==
  \A vite \in Servers :
    ~connected[vite] =>
      /\ ImportsOf(sent[vite]) = <<>>
      /\ Recorded(vite) = <<>>

(* ---------------------------------------------------------------------- *)
(* C4  One-shot gate                                                       *)
(* ---------------------------------------------------------------------- *)

\* C4: once a connection event of a server was observed, no deliver call on
\* that server is parked waiting for a connection (a connection event wakes
\* every parked call, so a call parked afterwards was made after it).
C4_OneShotGate ==
  \A vite \in Servers : connected[vite] => Parked(vite) = {}

(* ---------------------------------------------------------------------- *)
(* C5  Clear on rsc-reload                                                 *)
(* ---------------------------------------------------------------------- *)

CssModuleArtifacts == {r1, r3}

IsBlockingElement(element) ==
  "src" \in DOMAIN element.attrs /\ element.attrs.src = "/@vite/client"

IsArtifactElement(element) == ~IsBlockingElement(element)

\* the element plan has to emit for an artifact
IsElementOf(element, result) ==
  /\ "WAKU_ATTR_NAME" \in DOMAIN element.attrs
  /\ element.attrs.WAKU_ATTR_NAME = result.id
  /\ IF result \in CssModuleArtifacts
     THEN element.tag = "script" /\ element.children = result.code
     ELSE element.tag = "style" /\ element.children = result.source

PlanOrdering(reg, out) ==
  LET blocking == {i \in 1..Len(out) : IsBlockingElement(out[i])}
      cssModules == {i \in 1..Len(reg) : reg[i] \in CssModuleArtifacts}
      elements == SelectSeq(out, IsArtifactElement)
  IN /\ Cardinality(blocking) = IF cssModules = {} THEN 0 ELSE 1
     /\ \A b \in blocking :
          /\ b < Len(out)
          /\ \E first \in cssModules :
               /\ \A i \in cssModules : first <= i
               /\ IsElementOf(out[b + 1], reg[first])
          /\ \A i \in 1..Len(out) :
               (IsArtifactElement(out[i]) /\ out[i].tag = "script") => b < i
     /\ Len(elements) = Len(reg)
     /\ \A i \in 1..Len(reg) : IsElementOf(elements[i], reg[i])

\* C6: the output of plan holds the blocking client script once when an
\* artifact of kind css-module-script is recorded and not at all otherwise,
\* immediately before the element of the first such artifact and before every
\* css-module script element; the artifacts' elements are in insertion order;
\* for a css-module-script artifact followed by a plain stylesheet the output
\* is [blocking element, css-module script element, stylesheet element].
C6_PlannerOrdering ==
  (lastCall.op = "transformIndexHtml" /\ lastCall.vite \in Servers) =>
    /\ PlanOrdering(Recorded(lastCall.vite), lastCall.ret)
    /\ Recorded(lastCall.vite) = <<r1, r2>> =>
         lastCall.ret =
           << [tag |-> "script",
               attrs |-> [type |-> "module", blocking |-> "render", src |-> "/@vite/client"],
               injectTo |-> "head-prepend"],
              [tag |-> "script",
               attrs |-> [type |-> "module", WAKU_ATTR_NAME |-> <<"a", "module", "css">>],
               children |-> "js:a.module.css",
               injectTo |-> "head-prepend"],
              [tag |-> "style",
               attrs |-> [type |-> "text/css", WAKU_ATTR_NAME |-> <<"b", "css">>],
               children |-> "css:b.css",
               injectTo |-> "body"] >>

\* plan ran on a registry holding a css-module-script artifact and then a
\* plain stylesheet
C6_Witness ==
  /\ lastCall.op = "transformIndexHtml"
  /\ lastCall.vite \in Servers
  /\ Recorded(lastCall.vite) = <<r1, r2>>
  /\ Len(lastCall.ret) = 3

(* ---------------------------------------------------------------------- *)
(* C7  Idempotent plan                                                     *)
(* ---------------------------------------------------------------------- *)

\* C7: a plan call changes nothing of the registry (no record added, removed
\* or reordered, no entry created), and a plan call that directly follows a
\* plan call for the same server returns the same element sequence.
C7_IdempotentPlan ==
  /\ [][lastCall'.op = "transformIndexHtml" => modulePendingMap' = modulePendingMap]_vars
  /\ []((lastCall.op = "transformIndexHtml" /\ lastCall.repeat) =>
          lastCall.ret = lastCall.prev)

\* plan ran twice in a row on a registry that holds artifacts
C7_Witness ==
  /\ lastCall.op = "transformIndexHtml"
  /\ lastCall.repeat
  /\ Len(lastCall.ret) >= 2
  /\ lastCall.prev = lastCall.ret

(* ---------------------------------------------------------------------- *)
(* C8  Delivery order equals registry order                                *)
(* ---------------------------------------------------------------------- *)

\* index of the last rsc-reload of a log, 0 when it has none
LastReloadIndex(log) ==
  LET reloads == {i \in 1..Len(log) : log[i] = RscReload}
  IN IF reloads = {} THEN 0 ELSE CHOOSE i \in reloads : \A j \in reloads : j <= i

ImportsSinceReload(log) == ImportsOf(SubSeq(log, LastReloadIndex(log) + 1, Len(log)))

\* C8: for every server, the artifacts of the module-import events handed to
\* the transport since the last rsc-reload (or since the start) are, in that
\* order, exactly the registry set in insertion order, each artifact once.
C8_DeliveryOrderIsRegistryOrder ==
  \A vite \in Servers :
    /\ ImportsSinceReload(sent[vite]) = Recorded(vite)
    /\ \A result \in ModuleImportResult : Occurrences(Recorded(vite), result) <= 1

\* two artifacts were delivered after an rsc-reload
C8_Witness ==
  \E vite \in Servers :
    /\ LastReloadIndex(sent[vite]) > 0
    /\ Len(Recorded(vite)) >= 2
    /\ Len(sent[vite]) = Len(Recorded(vite)) + 1

(* ---------------------------------------------------------------------- *)
(* C9  Records are removed only by rsc-reload                              *)
(* ---------------------------------------------------------------------- *)

\* C9: a step after which an artifact recorded for a server is no longer
\* recorded is a hotUpdate of that server with rsc-reload; a full-reload is
\* handed to the transport and leaves the set of every server as it was.
C9_OnlyRscReloadRemoves ==
  /\ [][\A vite \in Servers :
          (\E result \in Range(Recorded(vite)) :
             result \notin Range(RecordedIn(modulePendingMap', vite))) =>
            /\ lastCall'.op = "hotUpdate"
            /\ lastCall'.vite = vite
            /\ lastCall'.payload = RscReload]_vars
  /\ [][\A vite \in Servers :
          (lastCall'.op = "hotUpdate" /\ lastCall'.vite = vite /\ lastCall'.payload = FullReload) =>
            /\ sent'[vite] = Append(sent[vite], FullReload)
            /\ \A other \in Servers :
                 RecordedIn(modulePendingMap', other) = Recorded(other)]_vars

\* a full-reload was processed for a server that has artifacts recorded
C9_Witness ==
  \E vite \in Servers :
    /\ LastHotUpdate(vite, FullReload)
    /\ Recorded(vite) # <<>>
    /\ sent[vite][Len(sent[vite])] = FullReload

(* ---------------------------------------------------------------------- *)
(* C10  full-reload and the registry                                       *)
(* ---------------------------------------------------------------------- *)

\* C10 as stated: after hotUpdate with full-reload no artifact remains
\* recorded for any server.
C10_FullReloadDiscards ==
  \A vite \in Servers :
    LastHotUpdate(vite, FullReload) => \A other \in Servers : Recorded(other) = <<>>

\* C10 (amended): hotUpdate with full-reload discards no registry state: the
\* registry after the call is the registry before it, for every server, and
\* no parked deliver is dropped.
C10_FullReloadKeepsRegistry ==
  [][(lastCall'.op = "hotUpdate" /\ lastCall'.payload = FullReload) =>
       /\ modulePendingMap' = modulePendingMap
       /\ pending' = pending]_vars

\* a full-reload was processed while both servers had artifacts recorded
C10_Witness ==
  /\ lastCall.op = "hotUpdate"
  /\ lastCall.payload = FullReload
  /\ \A vite \in Servers : Recorded(vite) # <<>>

(* ---------------------------------------------------------------------- *)
(* C11  hot-import passthrough                                             *)
(* ---------------------------------------------------------------------- *)

\* C11: after hotUpdate(vite, {type:'custom', event:'hot-import', data: path})
\* the event last handed to the transport of vite is that event, carrying
\* the path.
C11_HotImportPassthrough ==
  \A vite \in Servers, path \in Paths :
    LastHotUpdate(vite, HotImport(path)) =>
      /\ Len(sent[vite]) >= 1
      /\ sent[vite][Len(sent[vite])] = HotImport(path)

(* ---------------------------------------------------------------------- *)
(* C16  rsc-reload during a suspended delivery                             *)
(* ---------------------------------------------------------------------- *)

\* the handler that ran last was the connection event of vite that ran the
\* continuation of the parked deliver of result
ResumedByConnection(vite, result) ==
  /\ lastCall.op = "connection"
  /\ lastCall.vite = vite
  /\ result \in lastCall.resumed

\* the next handler is hotUpdate(vite, module-import result)
NextIsDeliver(vite, result) ==
  /\ lastCall'.op = "hotUpdate"
  /\ lastCall'.vite = vite
  /\ lastCall'.payload = ModuleImportEvent(result)

\* C16 as stated: when rsc-reload was processed while deliver(vite, result)
\* was parked and the connection then completed that deliver, a further
\* deliver(vite, result) right after it hands a new module-import event for
\* the artifact to the transport.
C16_RedeliveryAfterParkedReload ==
  [][\A vite \in Servers, result \in ModuleImportResult :
       (ResumedByConnection(vite, result) /\ lastCall.afterReload
          /\ NextIsDeliver(vite, result)) =>
         sent'[vite] = Append(sent[vite], ModuleImportEvent(result))]_vars

\* C16 (amended): once the connection has completed a parked deliver, also
\* one that was parked while rsc-reload was processed, the artifact is
\* recorded and was handed to the transport once since the last rsc-reload;
\* a further deliver of it right after is a no-op: nothing is sent and the
\* registry stays as it is.
C16_ParkedDeliverIsRecorded ==
  /\ [](\A vite \in Servers, result \in ModuleImportResult :
          ResumedByConnection(vite, result) =>
            /\ Occurrences(Recorded(vite), result) = 1
            /\ Occurrences(ImportsSinceReload(sent[vite]), result) = 1)
  /\ [][\A vite \in Servers, result \in ModuleImportResult :
          (ResumedByConnection(vite, result) /\ NextIsDeliver(vite, result)) =>
            /\ sent' = sent
            /\ modulePendingMap' = modulePendingMap
            /\ pending' = pending]_vars

\* rsc-reload was processed while the deliver was parked, and the connection
\* that followed has sent the artifact
C16_Witness ==
  \E vite \in Servers, result \in ModuleImportResult :
    /\ ResumedByConnection(vite, result)
    /\ lastCall.afterReload
    /\ Len(sent[vite]) >= 2
    /\ sent[vite][Len(sent[vite])] = ModuleImportEvent(result)
    /\ sent[vite][Len(sent[vite]) - 1] = RscReload
    /\ Recorded(vite) = <<result>>

(* ---------------------------------------------------------------------- *)
(* C17  Deduplication by identity                                          *)
(* ---------------------------------------------------------------------- *)

\* how many members of a sequence of artifacts carry the identity id
WithIdentity(seq, id) == Cardinality({i \in 1..Len(seq) : seq[i].id = id})

\* C17: for every server, the registry holds at most one artifact per
\* identity (id), and at most one module-import event per identity was
\* handed to the transport since the last rsc-reload, also when deliver was
\* called with two distinct artifact objects that carry the same identity.
C17_DedupByIdentity ==
  \A vite \in Servers, result \in ModuleImportResult :
    /\ WithIdentity(Recorded(vite), result.id) <= 1
    /\ WithIdentity(ImportsSinceReload(sent[vite]), result.id) <= 1

(* ---------------------------------------------------------------------- *)
(* C19  rsc-reload ordering                                                *)
(* ---------------------------------------------------------------------- *)

\* the next handler is hotUpdate(vite, rsc-reload)
NextIsRscReload(vite) ==
  /\ lastCall'.op = "hotUpdate"
  /\ lastCall'.vite = vite
  /\ lastCall'.payload = RscReload

\* C19: whenever rsc-reload is the event last handed to the transport of a
\* server, the registry holds no artifact for it; a hotUpdate with rsc-reload
\* hands the event to that transport exactly once, with or without a registry
\* entry and with or without a connection, and neither creates nor deletes a
\* registry entry; a deliver on a server whose entry exists, made right after
\* the rsc-reload, does not suspend.
C19_RscReloadOrdering ==
  /\ [](\A vite \in Servers :
          (Len(sent[vite]) >= 1 /\ sent[vite][Len(sent[vite])] = RscReload) =>
            Recorded(vite) = <<>>)
  /\ [][\A vite \in Servers :
          NextIsRscReload(vite) =>
            /\ sent'[vite] = Append(sent[vite], RscReload)
            /\ \A other \in Servers \ {vite} : sent'[other] = sent[other]
            /\ DOMAIN modulePendingMap' = DOMAIN modulePendingMap]_vars
  /\ [][\A vite \in Servers, result \in ModuleImportResult :
          (LastHotUpdate(vite, RscReload) /\ MapHas(modulePendingMap, vite)
             /\ NextIsDeliver(vite, result)) =>
            /\ ~lastCall'.suspended
            /\ pending' = pending]_vars

\* rsc-reload emptied a registry entry that held an artifact, and was handed
\* to the transport after that artifact's event
C19_Witness ==
  \E vite \in Servers :
    /\ LastHotUpdate(vite, RscReload)
    /\ MapHas(modulePendingMap, vite)
    /\ modulePendingMap[vite] = <<>>
    /\ Len(sent[vite]) >= 2
    /\ sent[vite][Len(sent[vite])] = RscReload
    /\ IsModuleImport(sent[vite][Len(sent[vite]) - 1])

(* ---------------------------------------------------------------------- *)
(* C20  Planner completeness                                               *)
(* ---------------------------------------------------------------------- *)

\* the elements of a plan output that carry the identity id
CarryingIdentity(out, id) ==
  {i \in 1..Len(out) :
     /\ "WAKU_ATTR_NAME" \in DOMAIN out[i].attrs
     /\ out[i].attrs.WAKU_ATTR_NAME = id}

Elements(doc) == doc.head \o doc.body

\* the attribute names under which an element carries a module id: the key of
\* the planned descriptors' attrs, and the one the client handlers set
IdentityAttributes == {"WAKU_ATTR_NAME", WAKU_ATTR_NAME}

\* the element was injected for an artifact
InjectedForArtifact(el) == DOMAIN el.attrs \cap IdentityAttributes # {}

\* the module id an injected element carries
IdentityOf(el) == el.attrs[CHOOSE name \in DOMAIN el.attrs \cap IdentityAttributes : TRUE]

\* the positions of the elements injected for the module id
ElementsFor(doc, id) ==
  {i \in 1..Len(Elements(doc)) :
     /\ InjectedForArtifact(Elements(doc)[i])
     /\ IdentityOf(Elements(doc)[i]) = id}

\* C12: every element injected for an artifact, by the plan or by the
\* module-import handler, carries the attribute the rsc-reload handler selects
\* on; once the page has handled rsc-reload none of them is left in the
\* document; and after a module-import was handled the page holds no two
\* elements for one module id.
C12_StaleElementsRemoved ==
  /\ \A i \in 1..Len(Elements(document)) :
       InjectedForArtifact(Elements(document)[i])
         => HasAttribute(Elements(document)[i], WAKU_ATTR_NAME)
  /\ clientLast.op = "rsc-reload"
       => \A i \in 1..Len(Elements(document)) : ~InjectedForArtifact(Elements(document)[i])
  /\ clientLast.op = "module-import"
       => Cardinality(ElementsFor(document, clientLast.data.id)) <= 1

(* ---------------------------------------------------------------------- *)
(* C13                                                                     *)
(* ---------------------------------------------------------------------- *)

\* the positions of a block's closures in the listener list
ListenersOf(block) ==
  {i \in 1..Len(WAKU_RSC_RELOAD_LISTENERS) : WAKU_RSC_RELOAD_LISTENERS[i].kind = block}

\* the value of a block's `current` slot
SlotOf(block) == IF block = "refetchRsc" THEN WAKU_REFETCH_RSC ELSE WAKU_REFETCH_ROUTE

\* C13: however often and in whatever order the fetchRSC block and the
\* InnerRouter block have run, the listener list holds at most one closure of
\* each block, that closure is the one the block created last and is the value
\* of the block's slot, and the list is never longer than 2.
C13_ReplaceNotAppend ==
  /\ \A block \in Blocks :
       /\ Cardinality(ListenersOf(block)) <= 1
       /\ \A i \in ListenersOf(block) :
            /\ WAKU_RSC_RELOAD_LISTENERS[i] = SlotOf(block)
            /\ WAKU_RSC_RELOAD_LISTENERS[i].n = created[block]
  /\ Len(WAKU_RSC_RELOAD_LISTENERS) <= 2

\* both blocks ran again after both had registered, the fetchRSC block last
C13_Witness ==
  /\ clientLast.op = "fetchRSC"
  /\ created["refetchRsc"] >= 2
  /\ created["refetchRoute"] >= 2
  /\ Len(WAKU_RSC_RELOAD_LISTENERS) = 2

(* ---------------------------------------------------------------------- *)
(* C14                                                                     *)
(* ---------------------------------------------------------------------- *)

\* in the list every refetchRoute closure stands before every refetchRsc closure
RouteBeforeFragment(list) ==
  \A i, j \in 1..Len(list) :
    list[i].kind = "refetchRoute" /\ list[j].kind = "refetchRsc" => i < j

\* C14: in whatever order and however often the two blocks have run, a
\* refetchRoute listener in the list stands at a lower index than a refetchRsc
\* listener, and the rsc-reload handler, which calls the listeners in list
\* order, has called refetchRoute before refetchRsc.
C14_RouteRefetchFirst ==
  /\ RouteBeforeFragment(WAKU_RSC_RELOAD_LISTENERS)
  /\ clientLast.op = "rsc-reload" => RouteBeforeFragment(clientLast.invoked)

\* rsc-reload handled with both listeners present, each registered anew before
C14_Witness ==
  /\ clientLast.op = "rsc-reload"
  /\ clientLast.invoked = <<[kind |-> "refetchRoute", n |-> 2], [kind |-> "refetchRsc", n |-> 2]>>

(* ---------------------------------------------------------------------- *)
(* C18                                                                     *)
(* ---------------------------------------------------------------------- *)

\* the kind of each artifact of the model
KindOf(result) ==
  CASE result \in {r1, r3} -> "css-module-script"
    [] result = r2 -> "stylesheet"
    [] result = r4 -> "script"
    [] result = r5 -> "unrecognized"

\* the planned elements that stand for artifacts, in plan order
ArtifactTags(tags) == SelectSeq(tags, InjectedForArtifact)

\* C18: for a page served from any registry, the plan has one element per
\* artifact, in order; the element is a script injected at head-prepend whose
\* content is the artifact's code exactly when the artifact is a
\* css-module-script, and for every other kind (stylesheet, script,
\* unrecognized) it is a style element injected into body whose content is the
\* artifact's source; the plan is produced for every kind.
C18_KindDispatch ==
  clientLast.op = "pageLoad" =>
    LET reg == clientLast.reg
        plan == ArtifactTags(clientLast.tags)
    IN /\ Len(plan) = Len(reg)
       /\ \A i \in 1..Len(reg) :
            /\ IdentityOf(plan[i]) = reg[i].id
            /\ ( /\ plan[i].tag = "script"
                 /\ plan[i].injectTo = "head-prepend"
                 /\ plan[i].children = reg[i].code )
                 <=> KindOf(reg[i]) = "css-module-script"
            /\ KindOf(reg[i]) # "css-module-script"
                 => /\ plan[i].tag = "style"
                    /\ plan[i].injectTo = "body"
                    /\ plan[i].children = reg[i].source

\* a page served from a registry holding an artifact of unrecognized kind
\* followed by a css-module-script
C18_Witness ==
  /\ clientLast.op = "pageLoad"
  /\ clientLast.reg = <<r5, r1>>

(* ---------------------------------------------------------------------- *)
(* C15                                                                     *)
(* ---------------------------------------------------------------------- *)

\* the code has a line equal to the marker
Contains(code, marker) == \E i \in 1..Len(code) : code[i] = marker

\* C15: transform returns the code it was given, line for line, when the id is
\* the client module's and the code lacks the fetchRSC marker, and when the id
\* is the router client module's and the code lacks the InnerRouter marker; for
\* an id of neither module it returns nothing, which leaves the module as it
\* is; and it returns in every case.
C15_PatchSafety ==
  transformed.op = "transform" =>
    LET id == transformed.id
        code == transformed.code
        ret == transformed.ret
    IN /\ StartsWith(id, wakuClientDist) /\ ~Contains(code, FETCH_RSC_LINE)
            => ret = Returned(code)
       /\ StartsWith(id, wakuRouterClientDist) /\ ~Contains(code, INNER_ROUTER_LINE)
            => ret = Returned(code)
       /\ ~StartsWith(id, wakuClientDist) /\ ~StartsWith(id, wakuRouterClientDist)
            => ret = ReturnedUndefined
       /\ ret.kind \in {"string", "undefined"}

\* the client module, with a query, whose fetchRSC line is printed differently
\* and which holds the other module's marker
C15_Witness ==
  /\ transformed.op = "transform"
  /\ transformed.id = wakuClientDist \o <<"?v=1">>
  /\ transformed.code =
       <<"export const fetchRSC = (input, searchParamsString, setElements, cache = fetchCache) => {",
         INNER_ROUTER_LINE>>
  /\ transformed.ret.kind = "string"

====
